---- MODULE Spec2Model ----
(***************************************************************************)
(* migo: a file-based SQL migrator (src/main.go).                          *)
(*                                                                         *)
(* State: the migrations directory (dir), the schema_migrations table      *)
(* (hist), the schema the scripts act on (schema), and for every running   *)
(* migrator process the position and the local variables of the command    *)
(* it runs (proc).  One action per statement the process sends to the      *)
(* database, so that a failing statement and a process that stops between  *)
(* two statements are both visible.                                        *)
(***************************************************************************)
EXTENDS Integers, Sequences, FiniteSets, TLC

VARIABLES dir, hist, schema, now, proc, last

vars == <<dir, hist, schema, now, proc, last>>

----------------------------------------------------------------------------
(* Bounds *)

MaxVersion == 2
MaxClock == 2

Versions == 1..MaxVersion
Bodies == {"x", "y"}
Targets == 0..MaxVersion
Names == {"a", "b"}
Procs == {"p1", "p2"}

----------------------------------------------------------------------------
(* Files.  A file is its name, <digits>_<name>.<ext>, and its raw content. *)
(* The digits are `zeros` leading zeros followed by the number `num`.      *)

\* a content without the line "-- +down"
NoDownMarker == "nodown"

FileName(f) == [zeros |-> f.zeros, num |-> f.num, name |-> f.name, ext |-> f.ext]

\* fmt.Sprintf("%d_%s.sql", version, name): %d prints no leading zeros
FormatPath(version, name) ==
    [zeros |-> 0, num |-> version, name |-> name, ext |-> "sql"]

\* strings.HasSuffix(e.Name(), ".sql")
IsSQL(f) == f.ext = "sql"

\* fmt.Sscanf(s, "%d", &v): leading zeros do not change the value
parseInt64(f) == f.num

\* regexp ^(\d+)_([^.]+)\.sql$ : the name holds no dot and is not empty
FilenameMatches(f) == IsSQL(f) /\ f.name \in Names

\* strings.SplitN(content, "-- +down", 2) yields two parts
HasDownSection(f) == f.body # NoDownMarker

\* hex.EncodeToString(sha256.Sum256(content)): one digest per content
Checksum(body) == <<"sha256", body>>

UpSQL(f) == [part |-> "up", body |-> f.body]
DownSQL(f) == [part |-> "down", body |-> f.body]

parseMigrationFile(f) ==
    IF ~FilenameMatches(f) THEN [err |-> "invalid filename"]
    ELSE IF ~HasDownSection(f) THEN [err |-> "missing down section"]
    ELSE [err |-> "",
          Version |-> parseInt64(f),
          Name |-> f.name,
          UpSQL |-> UpSQL(f),
          DownSQL |-> DownSQL(f),
          Checksum |-> Checksum(f.body)]

\* os.ReadDir: the entries of the directory, in some order
Enumerations(d) ==
    {s \in [1..Cardinality(d) -> d] : \A i, j \in DOMAIN s : i # j => s[i] # s[j]}

\* the parsed files left in the order of the directory listing
NoSort(s) == s

\* sort.Slice(migrations, less by Version), as an insertion sort
RECURSIVE InsertByVersion(_, _)
InsertByVersion(m, s) ==
    IF s = <<>> THEN <<m>>
    ELSE IF m.Version < Head(s).Version THEN <<m>> \o s
    ELSE <<Head(s)>> \o InsertByVersion(m, Tail(s))

RECURSIVE SortByVersion(_)
SortByVersion(s) ==
    IF s = <<>> THEN <<>>
    ELSE InsertByVersion(Head(s), SortByVersion(Tail(s)))

\* if e.IsDir() || !strings.HasSuffix(e.Name(), ".sql") { continue }
RECURSIVE SQLEntries(_)
SQLEntries(entries) ==
    IF entries = <<>> THEN <<>>
    ELSE IF IsSQL(Head(entries))
         THEN <<Head(entries)>> \o SQLEntries(Tail(entries))
         ELSE SQLEntries(Tail(entries))

ParseAll(entries) ==
    LET sqls == SQLEntries(entries)
    IN  [i \in DOMAIN sqls |-> parseMigrationFile(sqls[i])]

\* loadMigrations: parse every entry, fail on the first error, then sort
loadMigrations(entries) ==
    LET parsed == ParseAll(entries)
    IN  IF \E i \in DOMAIN parsed : parsed[i].err # ""
        THEN [err |-> "load", migrations |-> <<>>]
        ELSE [err |-> "", migrations |-> SortByVersion(parsed)]

----------------------------------------------------------------------------
(* The history table and the schema *)

\* a history query that yields no row
NoAppliedRows(h) == [v \in {} |-> h]

\* SELECT version, checksum FROM schema_migrations
appliedMigrations(h) == [v \in DOMAIN h |-> h[v].checksum]

\* ORDER BY version ASC LIMIT 1
FirstApplied(h) == CHOOSE v \in DOMAIN h : \A w \in DOMAIN h : v <= w

\* SELECT version, name ... ORDER BY version DESC LIMIT 1
LastApplied(h) == CHOOSE v \in DOMAIN h : \A w \in DOMAIN h : w <= v

\* INSERT INTO schema_migrations (version, name, checksum, applied_at)
InsertRow(h, m, at) ==
    [v \in DOMAIN h \cup {m.Version} |->
        IF v = m.Version
        THEN [name |-> m.Name, checksum |-> m.Checksum, applied_at |-> at]
        ELSE h[v]]

\* DELETE FROM schema_migrations with no WHERE clause
DeleteEveryRow(h, version) == [v \in {} |-> h]

\* DELETE FROM schema_migrations WHERE version = $1
DeleteRow(h, version) == [v \in DOMAIN h \ {version} |-> h[v]]

\* db.Exec(m.UpSQL) / db.Exec(m.DownSQL): what a successful script does
ExecScript(s, version, sql) ==
    IF sql.part = "up" THEN s \cup {version} ELSE s \ {version}

EmptyHist == [v \in {} |-> 0]

----------------------------------------------------------------------------
(* Processes *)

Idle ==
    [pc |-> "idle", cmd |-> "none", target |-> 0, migrations |-> <<>>,
     applied |-> EmptyHist, idx |-> 0, version |-> 0, outcome |-> "none",
     executed |-> <<>>, pre |-> [hist |-> EmptyHist, schema |-> {}],
     afterUp |-> FALSE, failed |-> 0, opened |-> {}, output |-> <<>>,
     dupkey |-> 0, raced |-> FALSE, prevTop |-> 0]

Init ==
    /\ dir = {}
    /\ hist = EmptyHist
    /\ schema = {}
    /\ now = 0
    /\ proc = [p \in Procs |-> Idle]
    /\ last = "none"

\* no migrator is running
Quiet == \A p \in Procs : proc[p].pc = "idle"

Running(p) == proc[p].pc \in {"exec", "record", "downexec", "downdelete"}

\* log.Fatal / return: the process ends with an outcome
Finish(st, outcome) ==
    [st EXCEPT !.pc = "done", !.outcome = outcome,
               !.migrations = <<>>, !.applied = EmptyHist, !.idx = 0]

----------------------------------------------------------------------------
(* The developer: files are added, changed and deleted between runs *)

AddFile(f) ==
    /\ Quiet
    /\ \A g \in dir : FileName(g) # FileName(f)
    /\ dir' = dir \cup {f}
    /\ last' = "none"
    /\ UNCHANGED <<hist, schema, now, proc>>

EditFile(f, body) ==
    /\ Quiet
    /\ f \in dir
    /\ body # f.body
    /\ dir' = (dir \ {f}) \cup {[f EXCEPT !.body = body]}
    /\ last' = "none"
    /\ UNCHANGED <<hist, schema, now, proc>>

DeleteFile(f) ==
    /\ Quiet
    /\ f \in dir
    /\ dir' = dir \ {f}
    /\ last' = "none"
    /\ UNCHANGED <<hist, schema, now, proc>>

----------------------------------------------------------------------------
(* up and up-to: applyMigrations *)

\* the checksums compared inside the apply loop: a mismatch behind a pending
\* migration is not seen before that migration is applied
ChecksumMismatchLazy(migrations, applied) ==
    \E i \in DOMAIN migrations :
        /\ migrations[i].Version \in DOMAIN applied
        /\ applied[migrations[i].Version] # migrations[i].Checksum
        /\ \A j \in 1..(i - 1) : migrations[j].Version \in DOMAIN applied

\* for _, m := range migrations { if old, ok := applied[m.Version]; ok && old != m.Checksum }
ChecksumMismatch(migrations, applied) ==
    \E i \in DOMAIN migrations :
        /\ migrations[i].Version \in DOMAIN applied
        /\ applied[migrations[i].Version] # migrations[i].Checksum

\* the loop without its `continue`
NeverApplied(applied, version) == FALSE

\* if _, ok := applied[m.Version]; ok { continue }
IsApplied(applied, version) == version \in DOMAIN applied

\* >= for >
PastTargetInclusive(upTo, target, version) == upTo /\ version >= target

\* the target never looked at
PastTargetIgnored(upTo, target, version) == FALSE

\* if upTo && len(target) > 0 && m.Version > target[0] { break }
PastTarget(upTo, target, version) == upTo /\ version > target

\* the index of the first migration from i on that the loop does not skip
RECURSIVE NextPending(_, _, _)
NextPending(migrations, applied, i) ==
    IF i > Len(migrations) THEN i
    ELSE IF IsApplied(applied, migrations[i].Version)
         THEN NextPending(migrations, applied, i + 1)
         ELSE i

\* a failing db.Exec(m.UpSQL) of migrations[i], which stays on: the loop goes on
UpFailedContinue(st, i) ==
    [st EXCEPT !.failed = st.migrations[i].Version, !.pc = "exec", !.idx = i + 1]

\* a failing db.Exec(m.UpSQL) of migrations[i]: log.Fatalf names the version
UpFailed(st, i) ==
    [Finish(st, "execfail") EXCEPT !.failed = st.migrations[i].Version]

\* applyMigrations up to the first loop iteration
\* the run of another process that is under way when a run starts has
\* overlapped with it
Overlapped(sq) ==
    IF sq.pc \in {"exec", "record", "downexec", "downdelete"}
    THEN [sq EXCEPT !.raced = TRUE] ELSE sq

StartUp(p, cmd, target, entries) ==
    /\ proc[p].pc = "idle"
    /\ cmd \in {"up", "up-to"}
    /\ entries \in Enumerations(dir)
    /\ LET loaded == loadMigrations(entries)
           applied == appliedMigrations(hist)
           st == [Idle EXCEPT !.cmd = cmd,
                                 !.target = IF cmd = "up-to" THEN target ELSE 0,
                                 !.migrations = loaded.migrations,
                                 !.applied = applied,
                                 !.idx = 1,
                                 !.opened = {FileName(f) : f \in {g \in dir : IsSQL(g)}},
                                 !.pre = [hist |-> hist, schema |-> schema],
                                 !.afterUp = (last = "upok"),
                                 !.raced = \E q \in Procs \ {p} : Running(q)]
       IN  proc' = [q \in Procs |->
                IF q # p THEN Overlapped(proc[q])
                ELSE IF loaded.err # "" THEN Finish(st, "loadfail")
                ELSE IF ChecksumMismatch(loaded.migrations, applied)
                     THEN Finish(st, "checksum")
                     ELSE [st EXCEPT !.pc = "exec"]]
    /\ UNCHANGED <<dir, hist, schema, now, last>>

\* one loop iteration up to and including db.Exec(m.UpSQL)
ApplyExec(p, ok) ==
    /\ proc[p].pc = "exec"
    /\ LET st == proc[p]
           i == NextPending(st.migrations, st.applied, st.idx)
       IN  IF i > Len(st.migrations)
           THEN /\ proc' = [proc EXCEPT ![p] = Finish(st, "ok")]
                /\ schema' = schema
           ELSE LET m == st.migrations[i]
                IN  IF PastTarget(st.cmd = "up-to", st.target, m.Version)
                    THEN /\ proc' = [proc EXCEPT ![p] = Finish(st, "ok")]
                         /\ schema' = schema
                    ELSE IF ok
                    THEN /\ schema' = ExecScript(schema, m.Version, m.UpSQL)
                         /\ proc' = [proc EXCEPT ![p] =
                                [st EXCEPT !.pc = "record", !.idx = i,
                                           !.executed = Append(@, [version |-> m.Version, sql |-> m.UpSQL])]]
                    ELSE /\ proc' = [proc EXCEPT ![p] = UpFailed(st, i)]
                         /\ schema' = schema
    /\ UNCHANGED <<dir, hist, now, last>>

\* a failing INSERT: log.Fatalf; with the database answering and a row of
\* that version in the table, the failure is the primary key's
RecordFailed(st, m, ok) ==
    [Finish(st, "recordfail") EXCEPT
        !.dupkey = IF ok /\ m.Version \in DOMAIN hist THEN m.Version ELSE 0]

\* the INSERT after a successful script; the version is the primary key and
\* applied_at is time.Now(), a clock that has moved on since the last insert
ApplyRecord(p, ok) ==
    /\ proc[p].pc = "record"
    /\ LET st == proc[p]
           m == st.migrations[st.idx]
       IN  IF ok /\ m.Version \notin DOMAIN hist /\ now < MaxClock
           THEN /\ hist' = InsertRow(hist, m, now + 1)
                /\ now' = now + 1
                /\ proc' = [proc EXCEPT ![p] = [st EXCEPT !.pc = "exec", !.idx = st.idx + 1]]
           ELSE /\ hist' = hist
                /\ now' = now
                /\ proc' = [proc EXCEPT ![p] = RecordFailed(st, m, ok)]
    /\ UNCHANGED <<dir, schema, last>>

----------------------------------------------------------------------------
(* down: rollbackLastMigration *)

\* readFile(path): the file of that name, if there is one
ReadPath(d, path) == {f \in d : FileName(f) = path}

\* a failing db.Exec(m.DownSQL) that does not end the run: the DELETE follows
DownFailedFallsThrough(st) == [st EXCEPT !.failed = st.version, !.pc = "downdelete"]

\* a failing db.Exec(m.DownSQL): log.Fatalf names the version
DownFailed(st) == [Finish(st, "execfail") EXCEPT !.failed = st.version]

\* err == sql.ErrNoRows taken for any other error: log.Fatal(err)
NoRowsIsFatal(st) == Finish(st, "queryfail")

\* err == sql.ErrNoRows: log.Println("No migrations to rollback"); return
NothingToRollback(st) == Finish(st, "nothing")

\* rollbackLastMigration up to parseMigrationFile; prevTop and afterUp
\* remember what ran right before
rollbackLastMigration(p, prevTop, afterUp) ==
    /\ LET st == [Idle EXCEPT !.cmd = "down",
                                 !.prevTop = prevTop,
                                 !.pre = [hist |-> hist, schema |-> schema],
                                 !.afterUp = afterUp]
       IN  IF DOMAIN hist = {}
           THEN proc' = [proc EXCEPT ![p] = NothingToRollback(st)]
           ELSE LET version == LastApplied(hist)
                    found == ReadPath(dir, FormatPath(version, hist[version].name))
                    path == FormatPath(version, hist[version].name)
                    sv == [st EXCEPT !.version = version, !.opened = {path}]
                IN  IF found = {}
                    THEN proc' = [proc EXCEPT ![p] = Finish(sv, "nofile")]
                    ELSE LET m == parseMigrationFile(CHOOSE f \in found : TRUE)
                         IN  proc' = [proc EXCEPT ![p] =
                                 IF m.err # "" THEN Finish(sv, "parsefail")
                                 ELSE [sv EXCEPT !.pc = "downexec",
                                                 !.migrations = <<m>>, !.idx = 1]]
    /\ UNCHANGED <<dir, hist, schema, now>>

\* down, started from the shell
StartDown(p) ==
    /\ proc[p].pc = "idle"
    /\ rollbackLastMigration(p, 0, last = "upok")
    /\ UNCHANGED last

\* db.Exec(m.DownSQL)
DownExec(p, ok) ==
    /\ proc[p].pc = "downexec"
    /\ LET st == proc[p]
           m == st.migrations[1]
       IN  IF ok
           THEN /\ schema' = ExecScript(schema, m.Version, m.DownSQL)
                /\ proc' = [proc EXCEPT ![p] =
                       [st EXCEPT !.pc = "downdelete",
                                  !.executed = Append(@, [version |-> m.Version, sql |-> m.DownSQL])]]
           ELSE /\ schema' = schema
                /\ proc' = [proc EXCEPT ![p] = DownFailed(st)]
    /\ UNCHANGED <<dir, hist, now, last>>

\* DELETE FROM schema_migrations WHERE version = $1
DownDelete(p, ok) ==
    /\ proc[p].pc = "downdelete"
    /\ LET st == proc[p]
       IN  IF ok
           THEN /\ hist' = DeleteRow(hist, st.version)
                /\ proc' = [proc EXCEPT ![p] = Finish(st, "ok")]
           ELSE /\ hist' = hist
                /\ proc' = [proc EXCEPT ![p] = Finish(st, "deletefail")]
    /\ UNCHANGED <<dir, schema, now, last>>

----------------------------------------------------------------------------
(* info: showMigrationInfo *)

\* the text printed in the time column of a migration with no history row
NoTime == <<"-">>

\* a.AppliedAt.Format("2006-01-02 15:04:05")
FormatTime(t) == <<"at", t>>

\* a line that takes every applied migration for unchanged
InfoLineNoCompare(h, m) ==
    IF m.Version \in DOMAIN h
    THEN [version |-> m.Version, name |-> m.Name, valid |-> "YES",
          applied_at |-> FormatTime(h[m.Version].applied_at)]
    ELSE [version |-> m.Version, name |-> m.Name, valid |-> "NO", applied_at |-> NoTime]

\* one line of the table: status NO / YES / CHANGED and the time of application
InfoLine(h, m) ==
    IF m.Version \in DOMAIN h
    THEN [version |-> m.Version, name |-> m.Name,
          valid |-> IF h[m.Version].checksum = m.Checksum THEN "YES" ELSE "CHANGED",
          applied_at |-> FormatTime(h[m.Version].applied_at)]
    ELSE [version |-> m.Version, name |-> m.Name, valid |-> "NO", applied_at |-> NoTime]

\* info sent to applyMigrations instead of showMigrationInfo
ShowInfoApplying(p, entries) ==
    /\ proc[p].pc = "idle"
    /\ entries \in Enumerations(dir)
    /\ proc' = [proc EXCEPT ![p] =
            [Idle EXCEPT !.pc = "exec", !.cmd = "info", !.idx = 1,
                         !.migrations = loadMigrations(entries).migrations,
                         !.applied = appliedMigrations(hist),
                         !.pre = [hist |-> hist, schema |-> schema]]]
    /\ UNCHANGED <<dir, hist, schema, now, last>>

\* showMigrationInfo: load, read the history, print one line per migration
ShowInfo(p, entries) ==
    /\ proc[p].pc = "idle"
    /\ entries \in Enumerations(dir)
    /\ LET loaded == loadMigrations(entries)
           st == [Idle EXCEPT !.cmd = "info",
                              !.opened = {FileName(f) : f \in {g \in dir : IsSQL(g)}},
                              !.pre = [hist |-> hist, schema |-> schema],
                              !.afterUp = (last = "upok")]
       IN  proc' = [proc EXCEPT ![p] =
                IF loaded.err # "" THEN Finish(st, "loadfail")
                ELSE Finish([st EXCEPT !.output =
                                [i \in DOMAIN loaded.migrations |->
                                    InfoLine(hist, loaded.migrations[i])]], "ok")]
    /\ UNCHANGED <<dir, hist, schema, now, last>>

----------------------------------------------------------------------------
(* The process stops between two statements *)

Kill(p) ==
    /\ Running(p)
    /\ proc' = [proc EXCEPT ![p] = Finish(proc[p], "killed")]
    /\ UNCHANGED <<dir, hist, schema, now, last>>

\* "Migrations applied successfully" was the last line of an up
Succeeded(st) == IF st.cmd = "up" /\ st.outcome = "ok" THEN "upok" ELSE "none"

\* the last version a run has executed a script of, 0 if none
LastExecuted(st) ==
    IF st.executed = <<>> THEN 0 ELSE st.executed[Len(st.executed)].version

\* the process has ended; `last` remembers an up that succeeded until a file
\* changes
Exit(p) ==
    /\ proc[p].pc = "done"
    /\ last' = Succeeded(proc[p])
    /\ proc' = [proc EXCEPT ![p] = Idle]
    /\ UNCHANGED <<dir, hist, schema, now>>

\* down, started right after an up or up-to that ended successfully
\* (up && down): the up's process ends and down begins
DownAfterUp(p) ==
    /\ proc[p].pc = "done"
    /\ proc[p].cmd \in {"up", "up-to"} /\ proc[p].outcome = "ok"
    /\ rollbackLastMigration(p, LastExecuted(proc[p]), proc[p].cmd = "up")
    /\ last' = Succeeded(proc[p])

----------------------------------------------------------------------------
(* One invoker at a time, a directory of well-formed files with one file   *)
(* per version and no leading zeros.                                       *)

CoreNames == {"a"}

CoreFiles ==
    [zeros : {0}, num : Versions, name : CoreNames, ext : {"sql"}, body : Bodies]

Developer ==
    \/ \E f \in CoreFiles : (\A g \in dir : g.num # f.num) /\ AddFile(f)
    \/ \E f \in dir, b \in Bodies : EditFile(f, b)
    \/ \E f \in dir : DeleteFile(f)

Migrator(p) ==
    \/ \E cmd \in {"up", "up-to"}, t \in Targets, e \in Enumerations(dir) :
            (cmd = "up" => t = 0) /\ StartUp(p, cmd, t, e)
    \/ \E ok \in BOOLEAN : ApplyExec(p, ok)
    \/ \E ok \in BOOLEAN : ApplyRecord(p, ok)
    \/ StartDown(p)
    \/ DownAfterUp(p)
    \/ \E ok \in BOOLEAN : DownExec(p, ok)
    \/ \E ok \in BOOLEAN : DownDelete(p, ok)
    \/ \E e \in Enumerations(dir) : ShowInfo(p, e)
    \/ Kill(p)
    \/ Exit(p)

Next == Developer \/ Migrator("p1")

Spec == Init /\ [][Next]_vars

----------------------------------------------------------------------------
(* Two invokers of up on one database and one directory *)

DeveloperConc ==
    \E f \in CoreFiles : (\A g \in dir : g.num # f.num) /\ AddFile(f)

MigratorConc(p) ==
    \/ \E e \in Enumerations(dir) : StartUp(p, "up", 0, e)
    \/ \E ok \in BOOLEAN : ApplyExec(p, ok)
    \/ \E ok \in BOOLEAN : ApplyRecord(p, ok)
    \/ Exit(p)

NextConc == DeveloperConc \/ \E p \in Procs : MigratorConc(p)

SpecConc == Init /\ [][NextConc]_vars

----------------------------------------------------------------------------
(* The same program on directories whose file names are not all of the      *)
(* form <version>_<name>.sql with one file per version                      *)

\* the largest number of entries of the directory
MaxEntries == 3

File(zeros, num, name, ext, body) ==
    [zeros |-> zeros, num |-> num, name |-> name, ext |-> ext, body |-> body]

\* 1_a.sql, 01_a.sql, 1_b.sql, 2_a.sql, 2_a.b.sql (malformed name),
\* 2_b.sql (no down section), 1_a.txt (not a migration)
WideFiles ==
    { File(0, 1, "a", "sql", "x"),
      File(1, 1, "a", "sql", "x"),
      File(0, 1, "b", "sql", "y"),
      File(0, 2, "a", "sql", "x"),
      File(0, 2, "a.b", "sql", "x"),
      File(0, 2, "b", "sql", NoDownMarker),
      File(0, 1, "a", "txt", NoDownMarker) }

DeveloperFiles ==
    \/ \E f \in WideFiles : Cardinality(dir) < MaxEntries /\ AddFile(f)
    \/ \E f \in dir : DeleteFile(f)

NextFiles == DeveloperFiles \/ Migrator("p1")

SpecFiles == Init /\ [][NextFiles]_vars

----------------------------------------------------------------------------
(* What the claims speak of *)

\* the versions of the files in the directory
Discovered == {parseInt64(f) : f \in dir}

\* the discovered versions with no row in history h
Pending(h) == Discovered \ DOMAIN h

\* the discovered versions whose row in h holds another checksum than the file
Tampered(h) ==
    {v \in DOMAIN h : \E f \in dir : parseInt64(f) = v /\ h[v].checksum # Checksum(f.body)}

\* the versions of the scripts a run has executed
ExecutedSet(st) == {st.executed[i].version : i \in DOMAIN st.executed}

Ascending(ex) == \A i, j \in DOMAIN ex : i < j => ex[i].version < ex[j].version

\* every executed script is the `part` script of the file of its version
ScriptsOf(ex, part) ==
    \A i \in DOMAIN ex :
        /\ ex[i].sql.part = part
        /\ \E f \in dir : parseInt64(f) = ex[i].version /\ ex[i].sql.body = f.body

\* h and g hold the same rows for the versions of g
KeepsRows(h, g) == \A v \in DOMAIN g : v \in DOMAIN h /\ h[v] = g[v]

IsUp(st) == st.cmd \in {"up", "up-to"}

----------------------------------------------------------------------------
(* C1 *)

\* C1: whenever no migrator is in the middle of a run (also after a run that a
\* failing statement or a kill ended), the versions with a history row are
\* exactly the versions whose forward script has run and not been undone.
C1_HistoryMatchesSchema ==
    (\A p \in Procs : proc[p].pc \in {"idle", "done"}) => DOMAIN hist = schema

----------------------------------------------------------------------------
(* C2 *)

\* C2: an up or up-to that starts with a checksum mismatch on any applied
\* version ends at once with the checksum error, has executed no script and
\* has left history and schema as they were.
C2_MismatchHaltsUp ==
    \A p \in Procs :
        (IsUp(proc[p]) /\ Tampered(proc[p].pre.hist) # {}) =>
            /\ proc[p].pc = "done"
            /\ proc[p].outcome = "checksum"
            /\ proc[p].executed = <<>>
            /\ hist = proc[p].pre.hist
            /\ schema = proc[p].pre.schema

\* an up stopped by a mismatch on a version above a pending one
C2_Witness ==
    \E p \in Procs :
        /\ IsUp(proc[p]) /\ proc[p].outcome = "checksum"
        /\ \E v \in Pending(hist), w \in Tampered(hist) : v < w

----------------------------------------------------------------------------
(* C3 *)

\* C3: a down that starts with a checksum mismatch on an applied version
\* executes no reverse script and leaves the history unchanged.
C3_MismatchHaltsDown ==
    \A p \in Procs :
        (proc[p].cmd = "down" /\ Tampered(proc[p].pre.hist) # {}) =>
            /\ proc[p].executed = <<>>
            /\ hist = proc[p].pre.hist

----------------------------------------------------------------------------
(* C4 *)

\* C4: an up that ends successfully has executed the forward scripts of
\* exactly the versions that were pending, in strictly ascending order, and
\* nothing is pending afterwards; while it runs, every script but the one
\* just executed already has its history row.
C4_UpAppliesPendingInOrder ==
    \A p \in Procs :
        LET st == proc[p] IN
        /\ (st.pc = "done" /\ st.cmd = "up" /\ st.outcome = "ok") =>
              /\ Ascending(st.executed)
              /\ ExecutedSet(st) = Pending(st.pre.hist)
              /\ ScriptsOf(st.executed, "up")
              /\ Pending(hist) = {}
              /\ KeepsRows(hist, st.pre.hist)
        /\ (IsUp(st) /\ st.pc = "exec") => ExecutedSet(st) \subseteq DOMAIN hist
        /\ (IsUp(st) /\ st.pc = "record") =>
              \A i \in 1..(Len(st.executed) - 1) : st.executed[i].version \in DOMAIN hist

\* a successful up that applied two versions
C4_Witness ==
    \E p \in Procs :
        /\ proc[p].pc = "done" /\ proc[p].cmd = "up" /\ proc[p].outcome = "ok"
        /\ Len(proc[p].executed) >= 2

----------------------------------------------------------------------------
(* C5 *)

\* C5: once the forward script of version v has failed in an up or up-to,
\* the run has ended with that failure; it executed exactly the pending
\* versions below v, in ascending order, and the history is the history
\* before the run plus the rows of those versions (no row for v or above).
C5_UpStopsAtFailure ==
    \A p \in Procs :
        LET st == proc[p] IN
        (IsUp(st) /\ st.failed # 0) =>
            /\ st.pc = "done" /\ st.outcome = "execfail"
            /\ st.failed \in Pending(st.pre.hist)
            /\ ExecutedSet(st) = {w \in Pending(st.pre.hist) : w < st.failed}
            /\ Ascending(st.executed)
            /\ DOMAIN hist = DOMAIN st.pre.hist \cup ExecutedSet(st)
            /\ KeepsRows(hist, st.pre.hist)

\* a failure at a version with a pending version above it
C5_Witness ==
    \E p \in Procs :
        /\ IsUp(proc[p]) /\ proc[p].pc = "done" /\ proc[p].outcome = "execfail"
        /\ \E w \in Pending(proc[p].pre.hist) : w > proc[p].failed

----------------------------------------------------------------------------
(* C6 *)

\* C6: an up that follows a successful up with no file changed in between
\* executes no script, leaves history and schema as they were, and ends
\* successfully unless it is killed.
C6_UpIdempotent ==
    \A p \in Procs :
        LET st == proc[p] IN
        (st.cmd = "up" /\ st.afterUp) =>
            /\ st.executed = <<>>
            /\ hist = st.pre.hist
            /\ schema = st.pre.schema
            /\ st.pc \in {"exec", "done"}
            /\ st.pc = "done" => st.outcome \in {"ok", "killed"}

\* a second up, on a history that is not empty, that has ended successfully
C6_Witness ==
    \E p \in Procs :
        /\ proc[p].cmd = "up" /\ proc[p].afterUp
        /\ proc[p].pc = "done" /\ proc[p].outcome = "ok"
        /\ DOMAIN hist # {}

----------------------------------------------------------------------------
(* C7 *)

\* C7: an up-to T that ends successfully has executed the forward scripts of
\* exactly the pending versions <= T, in ascending order; the history gained
\* exactly those rows, so every pending version > T is still pending.
C7_UpToBoundary ==
    \A p \in Procs :
        LET st == proc[p] IN
        (st.pc = "done" /\ st.cmd = "up-to" /\ st.outcome = "ok") =>
            /\ ExecutedSet(st) = {w \in Pending(st.pre.hist) : w <= st.target}
            /\ Ascending(st.executed)
            /\ ScriptsOf(st.executed, "up")
            /\ DOMAIN hist = DOMAIN st.pre.hist \cup ExecutedSet(st)
            /\ KeepsRows(hist, st.pre.hist)

\* an up-to that applied a version and left a higher one pending
C7_Witness ==
    \E p \in Procs :
        /\ proc[p].pc = "done" /\ proc[p].cmd = "up-to" /\ proc[p].outcome = "ok"
        /\ proc[p].executed # <<>>
        /\ \E w \in Pending(hist) : w > proc[p].target

----------------------------------------------------------------------------
(* C8 *)

\* C8 as stated: an up-to whose target is already applied executes no script
\* and leaves the history unchanged.
C8_AppliedTargetNoOp ==
    \A p \in Procs :
        LET st == proc[p] IN
        (st.cmd = "up-to" /\ st.target \in DOMAIN st.pre.hist) =>
            /\ st.executed = <<>>
            /\ hist = st.pre.hist

\* C8 amended: an up-to whose target is already applied executes only forward
\* scripts of pending versions below the target; with no pending version
\* below the target it executes nothing and leaves the history unchanged.
C8_AppliedTargetAmended ==
    \A p \in Procs :
        LET st == proc[p] IN
        (st.cmd = "up-to" /\ st.target \in DOMAIN st.pre.hist) =>
            /\ ExecutedSet(st) \subseteq {w \in Pending(st.pre.hist) : w < st.target}
            /\ ({w \in Pending(st.pre.hist) : w < st.target} = {}) =>
                  (st.executed = <<>> /\ hist = st.pre.hist)

\* an up-to on an applied target, with a pending version above it, that ended
C8_Witness ==
    \E p \in Procs :
        /\ proc[p].pc = "done" /\ proc[p].cmd = "up-to" /\ proc[p].outcome = "ok"
        /\ proc[p].target \in DOMAIN proc[p].pre.hist
        /\ \E w \in Pending(hist) : w > proc[p].target

----------------------------------------------------------------------------
(* C9 *)

\* C9: a down that ends successfully has executed one script, the reverse
\* script of the file of the highest version applied before it, and has
\* deleted that version's row and no other; the rows left are unchanged.
\* Each down starts from the history the one before left, so k of them remove
\* the k highest versions in descending order.
C9_DownRollsBackHighest ==
    \A p \in Procs :
        LET st == proc[p] IN
        (st.pc = "done" /\ st.cmd = "down" /\ st.outcome = "ok") =>
            /\ Len(st.executed) = 1
            /\ ScriptsOf(st.executed, "down")
            /\ st.executed[1].version \in DOMAIN st.pre.hist
            /\ \A w \in DOMAIN st.pre.hist : w <= st.executed[1].version
            /\ DOMAIN hist = DOMAIN st.pre.hist \ {st.executed[1].version}
            /\ KeepsRows(st.pre.hist, hist)

\* a successful down on a history of two versions
C9_Witness ==
    \E p \in Procs :
        /\ proc[p].pc = "done" /\ proc[p].cmd = "down" /\ proc[p].outcome = "ok"
        /\ Cardinality(DOMAIN proc[p].pre.hist) >= 2

----------------------------------------------------------------------------
(* C10 *)

\* C10: a down that cannot read the file of the highest applied version, or
\* whose reverse script fails, has ended and has left the history as it was;
\* when the file cannot be read it has executed nothing and the schema is as
\* it was.
C10_FailedDownKeepsHistory ==
    \A p \in Procs :
        LET st == proc[p] IN
        /\ (st.cmd = "down" /\ st.failed # 0) =>
              /\ st.pc = "done" /\ st.outcome = "execfail"
              /\ st.executed = <<>>
              /\ hist = st.pre.hist
        /\ (st.cmd = "down" /\ st.outcome \in {"nofile", "parsefail"}) =>
              /\ st.pc = "done"
              /\ st.executed = <<>>
              /\ hist = st.pre.hist
              /\ schema = st.pre.schema
        /\ (st.cmd = "down" /\ st.pc \in {"downexec", "downdelete"}) =>
              /\ \A w \in DOMAIN st.pre.hist : w <= st.version
              /\ \E f \in dir :
                    FileName(f) = FormatPath(st.version, st.pre.hist[st.version].name)

\* a down that found no file for the highest applied version while the file
\* of a lower applied version was there
C10_Witness ==
    \E p \in Procs :
        /\ proc[p].pc = "done" /\ proc[p].cmd = "down" /\ proc[p].outcome = "nofile"
        /\ \E w \in DOMAIN hist : w < proc[p].version /\ w \in Discovered

----------------------------------------------------------------------------
(* C11 *)

\* C11: a down that starts on an empty history has ended with the outcome
\* "nothing to roll back", has opened no file, has executed no statement and
\* has left history and schema as they were; that outcome is given in no
\* other case, so it is never one of the fatal outcomes of down.
C11_EmptyHistoryDown ==
    \A p \in Procs :
        LET st == proc[p] IN
        /\ (st.cmd = "down" /\ DOMAIN st.pre.hist = {}) =>
              /\ st.pc = "done" /\ st.outcome = "nothing"
              /\ st.opened = {}
              /\ st.executed = <<>>
              /\ hist = st.pre.hist
              /\ schema = st.pre.schema
        /\ (st.cmd = "down" /\ st.outcome = "nothing") => DOMAIN st.pre.hist = {}

\* a down on an empty history while the directory holds a file
C11_Witness ==
    \E p \in Procs :
        /\ proc[p].pc = "done" /\ proc[p].cmd = "down" /\ proc[p].outcome = "nothing"
        /\ dir # {}

----------------------------------------------------------------------------
(* C12 *)

\* the files of the directory that end in .sql
SQLFiles == {f \in dir : IsSQL(f)}

\* C12: info ends successfully with one line per discovered migration, in
\* ascending version order; a line says YES iff the version has a history
\* row with the file's checksum, CHANGED iff it has a row with another
\* checksum, NO iff it has no row, and carries a time iff there is a row.
C12_InfoReportsEveryMigration ==
    \A p \in Procs :
        LET st == proc[p] IN
        (st.pc = "done" /\ st.cmd = "info") =>
            /\ st.outcome = "ok"
            /\ Len(st.output) = Cardinality(SQLFiles)
            /\ {st.output[i].version : i \in DOMAIN st.output} = Discovered
            /\ \A i, j \in DOMAIN st.output :
                  i < j => st.output[i].version < st.output[j].version
            /\ \A i \in DOMAIN st.output :
                  LET e == st.output[i]
                      v == e.version
                  IN  /\ (e.valid = "YES") <=> (v \in DOMAIN hist /\ v \notin Tampered(hist))
                      /\ (e.valid = "CHANGED") <=> (v \in Tampered(hist))
                      /\ (e.valid = "NO") <=> (v \notin DOMAIN hist)
                      /\ (e.applied_at # NoTime) <=> (v \in DOMAIN hist)
                      /\ v \in DOMAIN hist => e.applied_at = FormatTime(hist[v].applied_at)

\* an info that reported a changed migration and another one after it
C12_Witness ==
    \E p \in Procs :
        /\ proc[p].pc = "done" /\ proc[p].cmd = "info"
        /\ Len(proc[p].output) >= 2
        /\ proc[p].output[1].valid = "CHANGED"

----------------------------------------------------------------------------
(* C13 *)

\* C13: info reports every version that has a history row and no file, in a
\* state other than not-applied.
C13_InfoReportsGaps ==
    \A p \in Procs :
        LET st == proc[p] IN
        (st.pc = "done" /\ st.cmd = "info") =>
            /\ st.outcome = "ok"
            /\ \A v \in DOMAIN hist \ Discovered :
                  \E i \in DOMAIN st.output :
                      st.output[i].version = v /\ st.output[i].valid # "NO"

----------------------------------------------------------------------------
(* C14 *)

\* C14: an info run is over in one step; it has executed no script and has
\* left history and schema as they were.
C14_InfoMutatesNothing ==
    \A p \in Procs :
        LET st == proc[p] IN
        (st.cmd = "info") =>
            /\ st.pc = "done"
            /\ st.executed = <<>>
            /\ hist = st.pre.hist
            /\ schema = st.pre.schema

\* an info on a directory with a pending and a changed migration
C14_Witness ==
    \E p \in Procs :
        /\ proc[p].pc = "done" /\ proc[p].cmd = "info"
        /\ Pending(hist) # {}
        /\ Tampered(hist) # {}

----------------------------------------------------------------------------
(* C15 *)

\* the .sql files of the directory that parseMigrationFile rejects
Malformed == {f \in SQLFiles : parseMigrationFile(f).err # ""}

\* C15: with a malformed .sql file in the directory, every run of up, up-to
\* and info, and every run of down on a history that is not empty, ends with
\* a load error, has executed no script and has left history and schema as
\* they were; with no such file, no run ends with a load error.
C15_MalformedFileAbortsEveryMode ==
    \A p \in Procs :
        LET st == proc[p] IN
        /\ (/\ st.pc # "idle" /\ Malformed # {}
            /\ st.cmd = "down" => DOMAIN st.pre.hist # {}) =>
              /\ st.pc = "done" /\ st.outcome = "loadfail"
              /\ st.executed = <<>>
              /\ hist = st.pre.hist
              /\ schema = st.pre.schema
        /\ (st.pc # "idle" /\ Malformed = {}) => st.outcome # "loadfail"

----------------------------------------------------------------------------
(* C16 *)

\* C16: the migrations a run of up has loaded are strictly increasing in
\* version, and no run of up executes two scripts for one version.
C16_VersionsStrictlyIncreasing ==
    \A p \in Procs :
        LET st == proc[p] IN
        IsUp(st) =>
            /\ \A i, j \in DOMAIN st.migrations :
                  i < j => st.migrations[i].Version < st.migrations[j].Version
            /\ \A i, j \in DOMAIN st.executed :
                  i # j => st.executed[i].version # st.executed[j].version

----------------------------------------------------------------------------
(* C17 *)

\* the well-formed migration files of the directory with version v
FilesOfVersion(v) ==
    {f \in SQLFiles : parseMigrationFile(f).err = "" /\ parseInt64(f) = v}

\* C17: a down that starts while the directory holds a well-formed file of
\* the highest applied version finds a file to roll that version back with.
C17_DownResolvesByVersion ==
    \A p \in Procs :
        LET st == proc[p] IN
        (/\ st.cmd = "down" /\ st.pc = "done"
         /\ DOMAIN st.pre.hist # {}
         /\ FilesOfVersion(LastApplied(st.pre.hist)) # {}) =>
            st.outcome \notin {"nofile", "parsefail"}

----------------------------------------------------------------------------
(* C18 *)

\* C18: an up whose INSERT failed on the primary key has overlapped with
\* the run of another up; an up that has overlapped with no other run finds
\* no row of the version whose script it has just executed.
C18_DoubleExecutionNeedsOverlap ==
    \A p \in Procs :
        LET st == proc[p] IN
        /\ (IsUp(st) /\ st.dupkey # 0) => st.raced
        /\ (IsUp(st) /\ st.pc = "record" /\ ~st.raced) =>
              st.migrations[st.idx].Version \notin DOMAIN hist

\* both runs read the history before either wrote, both executed the forward
\* script of one version, and the INSERT of the later one failed on the key
C18_Witness ==
    \E p, q \in Procs : \E v \in Versions :
        /\ p # q
        /\ IsUp(proc[p]) /\ IsUp(proc[q])
        /\ proc[p].pc = "done" /\ proc[p].dupkey = v
        /\ v \in ExecutedSet(proc[p]) /\ v \in ExecutedSet(proc[q])
        /\ v \notin DOMAIN proc[p].pre.hist /\ v \notin DOMAIN proc[q].pre.hist
        /\ v \in DOMAIN hist

----------------------------------------------------------------------------
(* C19 *)

\* a down that has run to its end right after an up or up-to that applied a
\* migration, with no file changed in between
RoundTrip(st) ==
    st.cmd = "down" /\ st.pc = "done" /\ st.outcome = "ok" /\ st.prevTop # 0

\* C19 as stated: such a down has rolled back the last version the up had
\* applied, and the history is the one from before that version was applied.
C19_DownUndoesLastOfUp ==
    \A p \in Procs :
        LET st == proc[p] IN
        RoundTrip(st) =>
            /\ st.version = st.prevTop
            /\ hist = DeleteRow(st.pre.hist, st.prevTop)

\* C19 amended: such a down has rolled back the highest applied version and
\* removed its row only; that version is the last one the up had applied
\* when the history held no higher version.
C19_DownUndoesHighest ==
    \A p \in Procs :
        LET st == proc[p] IN
        RoundTrip(st) =>
            /\ st.version = LastApplied(st.pre.hist)
            /\ hist = [v \in DOMAIN st.pre.hist \ {st.version} |-> st.pre.hist[v]]
            /\ (\A v \in DOMAIN st.pre.hist : v <= st.prevTop) => st.version = st.prevTop

\* a down that has rolled back the last of two versions an up had applied
C19_Witness ==
    \E p \in Procs :
        /\ RoundTrip(proc[p])
        /\ proc[p].version = proc[p].prevTop
        /\ Cardinality(DOMAIN proc[p].pre.hist) >= 2

====
